---- MODULE Spec2Model ----
(***************************************************************************)
(* Model of docs/create_presentation.py: the four slide builders           *)
(* (add_title_slide, add_content_slide, add_diagram_slide,                 *)
(* add_table_slide) and the deck that main assembles and saves.            *)
(*                                                                         *)
(* A slide is the ordered sequence of the shapes a builder adds to it.     *)
(* Lengths are in EMU, as python-pptx stores them.  An attribute the code  *)
(* never assigns is None (the empty set); an assigned one is Some(v).      *)
(***************************************************************************)
EXTENDS Integers, Sequences, FiniteSets, TLC

VARIABLES deck, caller, pc, call, raised, saved

vars == <<deck, caller, pc, call, raised, saved>>

(***************************************************************************)
(* Bounds: the calls a caller other than main makes on one deck, and the   *)
(* sizes of the bullets, rows and headers it passes.                       *)
(***************************************************************************)
MaxCalls == 1
MaxBullets == 3
MaxRows == 2
MaxCols == 3

(***************************************************************************)
(* Units and values.                                                       *)
(***************************************************************************)
None == {}
Some(v) == {v}

\* Inches(x) of pptx.util, x given in tenths of an inch: int(x * 914400).
Inches(tenths) == tenths * 91440

\* Pt(n) of pptx.util: n * 12700 EMU.
Pt(n) == n * 12700

RGBColor(r, g, b) == <<r, g, b>>

Accent == RGBColor(0, 112, 192)
White == RGBColor(255, 255, 255)
Black == RGBColor(0, 0, 0)

\* prs.slide_width / prs.slide_height set by main.
SlideWidth == Inches(100)
SlideHeight == Inches(75)

(***************************************************************************)
(* Paragraphs, shapes, cells as the library creates them.                  *)
(***************************************************************************)
\* The one empty paragraph every new text frame holds (tf.paragraphs[0]).
NewParagraph ==
    [text |-> "", size |-> None, bold |-> None, italic |-> None,
     color |-> None, alignment |-> None, space_before |-> None,
     level |-> None, name |-> None]

\* A cell of a new table: empty text, nothing assigned.
NewCell == [text |-> "", fill |-> None, bold |-> None, size |-> None, color |-> None]

\* slide.shapes.add_shape(MSO_SHAPE.RECTANGLE, left, top, width, height)
\* and slide.shapes.add_textbox(left, top, width, height).
NewShape(kind, left, top, width, height) ==
    [kind |-> kind, left |-> left, top |-> top, width |-> width, height |-> height,
     fill |-> None, line_fill |-> "default", line_color |-> None,
     word_wrap |-> None, margin_left |-> None, margin_top |-> None,
     paragraphs |-> <<NewParagraph>>,
     nrows |-> 0, ncols |-> 0, cells |-> <<>>]

\* slide.shapes.add_table(rows, cols, left, top, width, height).table
NewTable(nrows, ncols, left, top, width, height) ==
    [NewShape("table", left, top, width, height) EXCEPT
        !.paragraphs = <<>>,
        !.nrows = nrows, !.ncols = ncols,
        !.cells = [r \in 1..nrows |-> [c \in 1..ncols |-> NewCell]]]

(***************************************************************************)
(* str(value): values are strings or integers.                             *)
(***************************************************************************)
StrVal(s) == [tag |-> "str", s |-> s, n |-> 0]
IntVal(n) == [tag |-> "int", s |-> "", n |-> n]

Digit(d) == <<"0", "1", "2", "3", "4", "5", "6", "7", "8", "9">>[d + 1]

RECURSIVE Decimal(_)
Decimal(n) == IF n < 10 THEN Digit(n) ELSE Decimal(n \div 10) \o Digit(n % 10)

str(v) ==
    IF v.tag = "str" THEN v.s
    ELSE IF v.n < 0 THEN "-" \o Decimal(0 - v.n) ELSE Decimal(v.n)

(***************************************************************************)
(* add_title_slide(prs, title, subtitle="")                                *)
(***************************************************************************)
TitleBanner(title) ==
    [NewShape("shape", Inches(5), Inches(25), Inches(90), Inches(15)) EXCEPT
        !.fill = Some(Accent),
        !.line_fill = "background",
        !.word_wrap = Some(TRUE),
        !.paragraphs = <<[NewParagraph EXCEPT
            !.text = title, !.size = Some(Pt(40)), !.bold = Some(TRUE),
            !.color = Some(White), !.alignment = Some("CENTER")]>>]

TitleSubtitle(subtitle) ==
    [NewShape("textbox", Inches(5), Inches(42), Inches(90), Inches(8)) EXCEPT
        !.paragraphs = <<[NewParagraph EXCEPT
            !.text = subtitle, !.size = Some(Pt(24)),
            !.color = Some(RGBColor(100, 100, 100)),
            !.alignment = Some("CENTER")]>>]

\* Variant: the subtitle region is added whether or not subtitle is empty.
TitleSlideAlways(title, subtitle) ==
    <<TitleBanner(title), TitleSubtitle(subtitle)>>

TitleSlide(title, subtitle) ==
    IF subtitle # ""
    THEN <<TitleBanner(title), TitleSubtitle(subtitle)>>
    ELSE <<TitleBanner(title)>>

(***************************************************************************)
(* add_content_slide(prs, title, bullets, note="")                         *)
(***************************************************************************)
ContentHeader(title) ==
    [NewShape("shape", Inches(0), Inches(0), Inches(100), Inches(12)) EXCEPT
        !.fill = Some(Accent),
        !.line_fill = "background",
        !.word_wrap = Some(TRUE),
        !.margin_left = Some(Inches(5)),
        !.margin_top = Some(Inches(3)),
        !.paragraphs = <<[NewParagraph EXCEPT
            !.text = title, !.size = Some(Pt(32)), !.bold = Some(TRUE),
            !.color = Some(White), !.alignment = Some("LEFT")]>>]

ContentSpaceBefore == Pt(12)

ContentBullet(p, bullet) ==
    [p EXCEPT !.text = bullet, !.size = Some(Pt(20)),
              !.space_before = Some(ContentSpaceBefore), !.level = Some(0)]

\* Variant: blank bullets are filtered out instead of rendered.
RECURSIVE ContentParagraphsSkipBlank(_, _, _)
ContentParagraphsSkipBlank(paragraphs, bullets, i) ==
    IF i >= Len(bullets) THEN paragraphs
    ELSE IF bullets[i + 1] = "" THEN ContentParagraphsSkipBlank(paragraphs, bullets, i + 1)
    ELSE IF paragraphs[1].size = None
         THEN ContentParagraphsSkipBlank(
                  [paragraphs EXCEPT ![1] = ContentBullet(paragraphs[1], bullets[i + 1])],
                  bullets, i + 1)
         ELSE ContentParagraphsSkipBlank(
                  Append(paragraphs, ContentBullet(NewParagraph, bullets[i + 1])),
                  bullets, i + 1)

\* The enumerate loop: bullet 0 takes the text frame's existing paragraph,
\* every later bullet a paragraph added at the end.
RECURSIVE ContentParagraphs(_, _, _)
ContentParagraphs(paragraphs, bullets, i) ==
    IF i >= Len(bullets) THEN paragraphs
    ELSE IF i = 0
         THEN ContentParagraphs(
                  [paragraphs EXCEPT ![1] = ContentBullet(paragraphs[1], bullets[1])],
                  bullets, 1)
         ELSE ContentParagraphs(
                  Append(paragraphs, ContentBullet(NewParagraph, bullets[i + 1])),
                  bullets, i + 1)

ContentBody(bullets) ==
    LET box == [NewShape("textbox", Inches(5), Inches(15), Inches(90), Inches(50))
                    EXCEPT !.word_wrap = Some(TRUE)]
    IN  [box EXCEPT !.paragraphs = ContentParagraphs(box.paragraphs, bullets, 0)]

\* Variant: the note is placed 0.7 lower, past the canvas bottom.
ContentNoteLow(note) ==
    [NewShape("textbox", Inches(5), Inches(72), Inches(90), Inches(5)) EXCEPT
        !.paragraphs = <<[NewParagraph EXCEPT
            !.text = note, !.size = Some(Pt(14)), !.italic = Some(TRUE),
            !.color = Some(RGBColor(128, 128, 128))]>>]

ContentNote(note) ==
    [NewShape("textbox", Inches(5), Inches(65), Inches(90), Inches(5)) EXCEPT
        !.paragraphs = <<[NewParagraph EXCEPT
            !.text = note, !.size = Some(Pt(14)), !.italic = Some(TRUE),
            !.color = Some(RGBColor(128, 128, 128))]>>]

ContentSlide(title, bullets, note) ==
    IF note # ""
    THEN <<ContentHeader(title), ContentBody(bullets), ContentNote(note)>>
    ELSE <<ContentHeader(title), ContentBody(bullets)>>

(***************************************************************************)
(* add_diagram_slide(prs, title, diagram_text, bullets=None)               *)
(* bullets is None (not passed) or Some(sequence).                         *)
(***************************************************************************)
DiagramHeader(title) ==
    [NewShape("shape", Inches(0), Inches(0), Inches(100), Inches(12)) EXCEPT
        !.fill = Some(Accent),
        !.line_fill = "background",
        !.margin_left = Some(Inches(5)),
        !.margin_top = Some(Inches(3)),
        !.paragraphs = <<[NewParagraph EXCEPT
            !.text = title, !.size = Some(Pt(32)), !.bold = Some(TRUE),
            !.color = Some(White)]>>]

DiagramBox(diagram_text) ==
    [NewShape("shape", Inches(5), Inches(15), Inches(90), Inches(25)) EXCEPT
        !.fill = Some(RGBColor(240, 240, 240)),
        !.line_fill = "solid",
        !.line_color = Some(RGBColor(200, 200, 200)),
        !.word_wrap = Some(TRUE),
        !.margin_left = Some(Inches(2)),
        !.margin_top = Some(Inches(2)),
        !.paragraphs = <<[NewParagraph EXCEPT
            !.text = diagram_text, !.size = Some(Pt(14)),
            !.name = Some("Courier New"), !.color = Some(Black)]>>]

DiagramSpaceBefore == Pt(8)

DiagramBullet(p, bullet) ==
    [p EXCEPT !.text = bullet, !.size = Some(Pt(18)), !.color = Some(Black),
              !.space_before = Some(DiagramSpaceBefore)]

\* Variant: add_paragraph is forgotten, every bullet overwrites paragraph 0.
RECURSIVE DiagramParagraphsOverwrite(_, _, _)
DiagramParagraphsOverwrite(paragraphs, bullets, i) ==
    IF i >= Len(bullets) THEN paragraphs
    ELSE DiagramParagraphsOverwrite(
             [paragraphs EXCEPT ![1] = DiagramBullet(paragraphs[1], bullets[i + 1])],
             bullets, i + 1)

RECURSIVE DiagramParagraphs(_, _, _)
DiagramParagraphs(paragraphs, bullets, i) ==
    IF i >= Len(bullets) THEN paragraphs
    ELSE IF i = 0
         THEN DiagramParagraphs(
                  [paragraphs EXCEPT ![1] = DiagramBullet(paragraphs[1], bullets[1])],
                  bullets, 1)
         ELSE DiagramParagraphs(
                  Append(paragraphs, DiagramBullet(NewParagraph, bullets[i + 1])),
                  bullets, i + 1)

DiagramBullets(bullets) ==
    LET box == [NewShape("textbox", Inches(5), Inches(42), Inches(90), Inches(25))
                    EXCEPT !.word_wrap = Some(TRUE)]
    IN  [box EXCEPT !.paragraphs = DiagramParagraphs(box.paragraphs, bullets, 0)]

\* "if bullets:" is false for None and for the empty list.
Truthy(bullets) == \E b \in bullets : Len(b) > 0

DiagramSlide(title, diagram_text, bullets) ==
    IF Truthy(bullets)
    THEN <<DiagramHeader(title), DiagramBox(diagram_text),
           DiagramBullets(CHOOSE b \in bullets : TRUE)>>
    ELSE <<DiagramHeader(title), DiagramBox(diagram_text)>>

(***************************************************************************)
(* add_table_slide(prs, title, headers, rows)                              *)
(***************************************************************************)
\* Variant: the table slide's header band is 1.5 high.
TableHeaderTall(title) ==
    [NewShape("shape", Inches(0), Inches(0), Inches(100), Inches(15)) EXCEPT
        !.fill = Some(Accent),
        !.line_fill = "background",
        !.margin_left = Some(Inches(5)),
        !.margin_top = Some(Inches(3)),
        !.paragraphs = <<[NewParagraph EXCEPT
            !.text = title, !.size = Some(Pt(32)), !.bold = Some(TRUE),
            !.color = Some(White)]>>]

TableHeader(title) ==
    [NewShape("shape", Inches(0), Inches(0), Inches(100), Inches(12)) EXCEPT
        !.fill = Some(Accent),
        !.line_fill = "background",
        !.margin_left = Some(Inches(5)),
        !.margin_top = Some(Inches(3)),
        !.paragraphs = <<[NewParagraph EXCEPT
            !.text = title, !.size = Some(Pt(32)), !.bold = Some(TRUE),
            !.color = Some(White)]>>]

\* table.cell(row_idx, col_idx), 0-based: an index outside the grid raises
\* IndexError.
CellInRange(table, row_idx, col_idx) ==
    row_idx < table.nrows /\ col_idx < table.ncols

HeaderCell(cell, header) ==
    [cell EXCEPT !.text = header, !.fill = Some(Accent), !.bold = Some(TRUE),
                 !.size = Some(Pt(14)), !.color = Some(White)]

DataCell(cell, value) ==
    [cell EXCEPT !.text = str(value), !.size = Some(Pt(12))]

\* "for i, header in enumerate(headers)"
RECURSIVE FillHeaders(_, _, _)
FillHeaders(table, headers, i) ==
    IF i >= Len(headers) THEN [table |-> table, raised |-> "none"]
    ELSE IF ~CellInRange(table, 0, i) THEN [table |-> table, raised |-> "IndexError"]
    ELSE FillHeaders(
             [table EXCEPT !.cells[1][i + 1] = HeaderCell(@, headers[i + 1])],
             headers, i + 1)

\* Variant: the "+ 1" that skips the header row is dropped.
RECURSIVE FillRowNoOffset(_, _, _, _)
FillRowNoOffset(table, row, row_idx, col_idx) ==
    IF col_idx >= Len(row) THEN [table |-> table, raised |-> "none"]
    ELSE IF ~CellInRange(table, row_idx, col_idx)
         THEN [table |-> table, raised |-> "IndexError"]
    ELSE FillRowNoOffset(
             [table EXCEPT !.cells[row_idx + 1][col_idx + 1] = DataCell(@, row[col_idx + 1])],
             row, row_idx, col_idx + 1)

\* "for col_idx, value in enumerate(row)"
RECURSIVE FillRow(_, _, _, _)
FillRow(table, row, row_idx, col_idx) ==
    IF col_idx >= Len(row) THEN [table |-> table, raised |-> "none"]
    ELSE IF ~CellInRange(table, row_idx + 1, col_idx)
         THEN [table |-> table, raised |-> "IndexError"]
    ELSE FillRow(
             [table EXCEPT !.cells[row_idx + 2][col_idx + 1] = DataCell(@, row[col_idx + 1])],
             row, row_idx, col_idx + 1)

\* "for row_idx, row in enumerate(rows)": the first exception ends the loop.
RECURSIVE FillRows(_, _, _)
FillRows(table, rows, row_idx) ==
    IF row_idx >= Len(rows) THEN [table |-> table, raised |-> "none"]
    ELSE LET r == FillRow(table, rows[row_idx + 1], row_idx, 0)
         IN  IF r.raised # "none" THEN r
             ELSE FillRows(r.table, rows, row_idx + 1)

\* The slide as it stands when the call returns or raises, and the exception.
TableSlide(title, headers, rows) ==
    LET table == NewTable(Len(rows) + 1, Len(headers),
                          Inches(5), Inches(15), Inches(90), Inches(5))
        h == FillHeaders(table, headers, 0)
        r == IF h.raised # "none" THEN h ELSE FillRows(h.table, rows, 0)
    IN  [slide |-> <<TableHeader(title), r.table>>, raised |-> r.raised]

(***************************************************************************)
(* The deck.  prs.slides.add_slide is the first statement of every         *)
(* builder: the slide is in the deck before any shape is added, so it      *)
(* stays there when a later statement raises.                              *)
(***************************************************************************)
NoCall == [op |-> "none", args |-> <<>>]

\* The slide a call leaves in the deck and the exception it ends with.
Build(c) ==
    IF c.op = "title"
    THEN [slide |-> TitleSlide(c.args[1], c.args[2]), raised |-> "none"]
    ELSE IF c.op = "content"
    THEN [slide |-> ContentSlide(c.args[1], c.args[2], c.args[3]), raised |-> "none"]
    ELSE IF c.op = "diagram"
    THEN [slide |-> DiagramSlide(c.args[1], c.args[2], c.args[3]), raised |-> "none"]
    ELSE TableSlide(c.args[1], c.args[2], c.args[3])

\* Variant: the new slide is inserted at the front of the deck.
InvokePrepend(c) ==
    LET b == Build(c)
    IN  /\ deck' = <<b.slide>> \o deck
        /\ raised' = b.raised
        /\ call' = c

Invoke(c) ==
    LET b == Build(c)
    IN  /\ deck' = Append(deck, b.slide)
        /\ raised' = b.raised
        /\ call' = c

(***************************************************************************)
(* The fourteen calls of main, in order.  Titles and texts are cut to      *)
(* short ASCII stand-ins; the blank bullets are where main has them.       *)
(***************************************************************************)
Row(cells) == [c \in 1..Len(cells) |-> StrVal(cells[c])]

MainCalls == <<
    [op |-> "title", args |-> <<"S1", "WMS Buffer Management System">>],
    [op |-> "diagram", args |-> <<"S2", "D2", Some(<<"b1", "b2", "b3", "b4">>)>>],
    [op |-> "table", args |-> <<"S3", <<"H1", "H2">>,
        <<Row(<<"r1a", "r1b">>), Row(<<"r2a", "r2b">>),
          Row(<<"r3a", "r3b">>), Row(<<"r4a", "r4b">>)>> >>],
    [op |-> "content", args |-> <<"S4",
        <<"l1", "l2", "", "l3", "l4", "", "l5", "l6", "", "l7">>, "">>],
    [op |-> "content", args |-> <<"S5",
        <<"m1", "m2", "m3", "", "m4", "m5", "m6", "", "m7">>, "">>],
    [op |-> "content", args |-> <<"S6",
        <<"p1", "", "p2", "", "p3", "p4", "p5", "p6", "", "p7">>, "">>],
    [op |-> "content", args |-> <<"S7",
        <<"q1", "", "q2", "q3", "q4", "q5", "", "q6", "q7", "", "q8", "q9", "q10">>, "">>],
    [op |-> "content", args |-> <<"S8",
        <<"o1", "", "o2", "o3", "o4", "", "o5", "o6", "o7", "o8", "", "o9">>, "">>],
    [op |-> "diagram", args |-> <<"S9", "D9", Some(<<"c1", "c2", "c3", "c4", "c5">>)>>],
    [op |-> "content", args |-> <<"S10",
        <<"f1", "f2", "f3", "f4", "", "f5", "f6", "f7", "f8", "", "f9">>, "">>],
    [op |-> "content", args |-> <<"S11",
        <<"k1", "k2", "k3", "", "k4", "k5", "k6", "", "k7", "", "k8">>, "">>],
    [op |-> "table", args |-> <<"S12", <<"Metric", "Before", "After", "Gain">>,
        <<Row(<<"Wave time", "45 min", "32 min", "-29%">>),
          Row(<<"Idle", "12%", "3%", "-75%">>),
          Row(<<"Critical", "5/day", "<1/day", "-80%">>),
          Row(<<"Mileage", "100%", "85%", "-15%">>)>> >>],
    [op |-> "table", args |-> <<"S13", <<"Stage", "Tasks", "Result">>,
        <<Row(<<"1. ML", "t1", "u1">>), Row(<<"2. Test", "t2", "u2">>),
          Row(<<"3. OR-Tools", "t3", "u3">>), Row(<<"4. Pilot", "t4", "u4">>),
          Row(<<"5. Prod", "t5", "u5">>)>> >>],
    [op |-> "content", args |-> <<"S14",
        <<"z1", "", "z2", "z3", "z4", "z5", "z6", "", "z7">>, "">>]
>>

(***************************************************************************)
(* Inputs of a caller other than main.                                     *)
(***************************************************************************)
Titles == {"T", "Heading"}
Subtitles == {"", "WMS"}
Notes == {"", "note"}
DiagramTexts == {"A --> B"}
BulletStrings == {"", "line"}

SeqsUpTo(S, n) == UNION {[1..k -> S] : k \in 0..n}

BulletSeqs == SeqsUpTo(BulletStrings, MaxBullets)

HeaderNames == <<"A", "B", "C", "D">>
Headers(ncols) == [c \in 1..ncols |-> HeaderNames[((c - 1) % Len(HeaderNames)) + 1]]

\* The value at data row r, column c (1-based): strings and integers, so
\* that neighbours in a row and in a column differ.
Values == <<StrVal("x"), IntVal(7), StrVal("y"), IntVal(-12)>>
CellValue(r, c) == Values[((r + c) % Len(Values)) + 1]

\* Every rows argument of at most MaxRows rows for a table of ncols columns:
\* each row one short, exact, or one long.
TableRows(ncols) ==
    UNION {{[r \in 1..n |-> [c \in 1..lens[r] |-> CellValue(r, c)]] :
                lens \in [1..n -> (ncols - 1)..(ncols + 1)]} : n \in 0..MaxRows}

(***************************************************************************)
(* State machine.                                                          *)
(***************************************************************************)
Init ==
    /\ deck = <<>>
    /\ caller \in {"main", "any"}
    /\ pc = 1
    /\ call = NoCall
    /\ raised = "none"
    /\ saved = None

add_title_slide ==
    /\ caller = "any" /\ Len(deck) < MaxCalls
    /\ \E title \in Titles, subtitle \in Subtitles :
           Invoke([op |-> "title", args |-> <<title, subtitle>>])
    /\ UNCHANGED <<caller, pc, saved>>

add_content_slide ==
    /\ caller = "any" /\ Len(deck) < MaxCalls
    /\ \E title \in Titles, bullets \in BulletSeqs, note \in Notes :
           Invoke([op |-> "content", args |-> <<title, bullets, note>>])
    /\ UNCHANGED <<caller, pc, saved>>

add_diagram_slide ==
    /\ caller = "any" /\ Len(deck) < MaxCalls
    /\ \E title \in Titles, diagram_text \in DiagramTexts,
          bullets \in {None} \cup {Some(b) : b \in BulletSeqs} :
           Invoke([op |-> "diagram", args |-> <<title, diagram_text, bullets>>])
    /\ UNCHANGED <<caller, pc, saved>>

add_table_slide ==
    /\ caller = "any" /\ Len(deck) < MaxCalls
    /\ \E title \in Titles, ncols \in 1..MaxCols :
         \E rows \in TableRows(ncols) :
           Invoke([op |-> "table", args |-> <<title, Headers(ncols), rows>>])
    /\ UNCHANGED <<caller, pc, saved>>

\* main: the next of its fourteen calls; an exception would end main.
MainCall ==
    /\ caller = "main" /\ pc <= Len(MainCalls) /\ raised = "none"
    /\ Invoke(MainCalls[pc])
    /\ pc' = pc + 1
    /\ UNCHANGED <<caller, saved>>

\* main: prs.save(output_path) after the last call.
Save ==
    /\ caller = "main" /\ pc = Len(MainCalls) + 1 /\ raised = "none"
    /\ saved = None
    /\ saved' = Some(deck)
    /\ UNCHANGED <<deck, caller, pc, call, raised>>

Next ==
    \/ add_title_slide
    \/ add_content_slide
    \/ add_diagram_slide
    \/ add_table_slide
    \/ MainCall
    \/ Save

Spec == Init /\ [][Next]_vars

(***************************************************************************)
(* Properties.  call is the last builder call made, LastSlide the slide    *)
(* it left at the end of the deck.                                         *)
(***************************************************************************)
Called(op) == call.op = op /\ Len(deck) > 0

LastSlide == deck[Len(deck)]

Geometry(shape) == <<shape.left, shape.top, shape.width, shape.height>>

Bottom(shape) == shape.top + shape.height

Texts(paragraphs) == [i \in 1..Len(paragraphs) |-> paragraphs[i].text]

WellFormed(headers, rows) == \A r \in 1..Len(rows) : Len(rows[r]) = Len(headers)

\* C1: a table call with a ragged rows argument (some row shorter or longer
\* than headers) raises MalformedTableInput.
C1_RaggedRaisesMalformedTableInput ==
    (Called("table") /\ ~WellFormed(call.args[2], call.args[3]))
        => raised = "MalformedTableInput"

\* C2: for every bullets sequence, the empty one included, the body region
\* of a content slide holds exactly len(bullets) paragraphs and paragraph i
\* has text bullets[i].
C2_OneParagraphPerBullet ==
    Called("content") => Texts(LastSlide[2].paragraphs) = call.args[2]

\* C2 as amended: for every non-empty bullets sequence the body region holds
\* exactly len(bullets) paragraphs, paragraph i with text bullets[i], blank
\* strings kept; for the empty sequence it holds the text frame's one
\* untouched blank paragraph.
C2_OneParagraphPerBulletOrOneBlank ==
    Called("content") =>
        LET body == LastSlide[2]
            bullets == call.args[2]
        IN  IF bullets = <<>>
            THEN body.paragraphs = <<NewParagraph>>
            ELSE /\ Len(body.paragraphs) = Len(bullets)
                 /\ \A i \in 1..Len(bullets) : body.paragraphs[i].text = bullets[i]

C2_Witness ==
    /\ Called("content")
    /\ Len(call.args[2]) >= 2
    /\ \E i \in 1..Len(call.args[2]) : call.args[2][i] = ""
    /\ \E i \in 1..Len(call.args[2]) : call.args[2][i] # ""

\* The display text of the values the callers pass, written out.
DisplayText(v) ==
    IF v = IntVal(7) THEN "7" ELSE IF v = IntVal(-12) THEN "-12" ELSE v.s

C4_SameBandOnEverySlide ==
    \A i, j \in 1..Len(deck) : Geometry(deck[i][1]) = Geometry(deck[j][1])

\* C4 as amended: the region carrying the title text is the band at (0, 0)
\* of size 10 x 1.2 on every content, diagram and table slide; on a title
\* slide it is the banner at (0.5, 2.5) of size 9 x 1.5.
C4_SameBandExceptTitleSlide ==
    /\ (Called("content") \/ Called("diagram") \/ Called("table")) =>
           /\ Geometry(LastSlide[1]) = <<0, 0, Inches(100), Inches(12)>>
           /\ LastSlide[1].paragraphs[1].text = call.args[1]
    /\ Called("title") =>
           /\ Geometry(LastSlide[1]) = <<Inches(5), Inches(25), Inches(90), Inches(15)>>
           /\ LastSlide[1].paragraphs[1].text = call.args[1]

C4_Witness ==
    /\ Len(deck) >= 4
    /\ Called("content")
    /\ Geometry(deck[1][1]) # Geometry(deck[2][1])
    /\ Geometry(deck[2][1]) = Geometry(deck[3][1])
    /\ Geometry(deck[3][1]) = Geometry(deck[4][1])

\* C5: the header band of a diagram slide and of a table slide is identical
\* to the one the content builder makes for the same title, alignment and
\* word-wrap settings included.
C5_HeaderIdenticalToContent ==
    (Called("diagram") \/ Called("table")) =>
        LastSlide[1] = ContentHeader(call.args[1])

\* C6: on every slide, every region after the first lies at or below the
\* bottom of the first (1.2 on content, diagram and table slides), ends at
\* or above the canvas bottom (7.5) and at or left of the canvas right
\* edge (10).
C6_RegionsInsideCanvasBelowHeader ==
    /\ \A i \in 1..Len(deck) : \A k \in 2..Len(deck[i]) :
           /\ deck[i][k].top >= Bottom(deck[i][1])
           /\ deck[i][k].top + deck[i][k].height <= SlideHeight
           /\ deck[i][k].left >= 0
           /\ deck[i][k].left + deck[i][k].width <= SlideWidth
    /\ SlideHeight = Inches(75) /\ SlideWidth = Inches(100)
    /\ (Called("content") \/ Called("diagram") \/ Called("table")) =>
           /\ Bottom(LastSlide[1]) = Inches(12)
           /\ \A k \in 2..Len(LastSlide) : LastSlide[k].top >= Inches(12)

C6_Witness ==
    /\ Called("content")
    /\ Len(LastSlide) = 3
    /\ call.args[3] # ""

\* The archetype a slide shows: a title slide's first region is the
\* mid-canvas banner; otherwise the second region is the table, the diagram
\* box or the body text.
Archetype(slide) ==
    IF slide[1].top # 0 THEN "title"
    ELSE IF slide[2].kind = "table" THEN "table"
    ELSE IF slide[2].kind = "shape" THEN "diagram"
    ELSE "content"

MainOrder ==
    <<"title", "diagram", "table", "content", "content", "content", "content",
      "content", "diagram", "content", "content", "table", "table", "content">>

\* C7: every builder call (every step but the save) appends exactly one
\* slide at the end of the deck and leaves the slides already there
\* unchanged, the save leaves the deck alone, and the deck main saves holds
\* exactly 14 slides in the order of main's calls.
C7_AppendOnlyInCallOrder ==
    /\ [][saved' = saved =>
              /\ Len(deck') = Len(deck) + 1
              /\ \A i \in 1..Len(deck) : deck'[i] = deck[i]
              /\ deck'[Len(deck')][1].paragraphs[1].text = call'.args[1]]_vars
    /\ [][saved' # saved => deck' = deck]_vars
    /\ [](\A d \in saved :
              /\ Len(d) = 14
              /\ \A i \in 1..14 :
                     /\ Archetype(d[i]) = MainOrder[i]
                     /\ d[i][1].paragraphs[1].text = MainCalls[i].args[1])

C7_Witness ==
    /\ saved # None
    /\ Len(deck) = 14

\* C8: a title call never fails; with a non-empty subtitle the slide has
\* exactly two regions, the banner with the title in bold white centred
\* text and the subtitle in gray centred text; with an empty subtitle it
\* has the banner only.
C8_TitleSlideRegions ==
    Called("title") =>
        LET title == call.args[1]
            subtitle == call.args[2]
            banner == LastSlide[1]
        IN  /\ raised = "none"
            /\ Len(banner.paragraphs) = 1
            /\ banner.paragraphs[1].text = title
            /\ banner.paragraphs[1].bold = Some(TRUE)
            /\ banner.paragraphs[1].color = Some(RGBColor(255, 255, 255))
            /\ banner.paragraphs[1].alignment = Some("CENTER")
            /\ banner.fill # None
            /\ IF subtitle # ""
               THEN /\ Len(LastSlide) = 2
                    /\ Len(LastSlide[2].paragraphs) = 1
                    /\ LastSlide[2].paragraphs[1].text = subtitle
                    /\ LastSlide[2].paragraphs[1].color = Some(RGBColor(100, 100, 100))
                    /\ LastSlide[2].paragraphs[1].alignment = Some("CENTER")
               ELSE Len(LastSlide) = 1

C8_Witness ==
    /\ Called("title")
    /\ call.args[2] # ""
    /\ Len(LastSlide) = 2

\* C9: when bullets is supplied to the diagram builder, the slide has a
\* third region below the diagram box with one paragraph per bullet in
\* order, each with the space before it that the content builder gives its
\* bullet paragraphs.
C9_DiagramBulletsSpacedAsContent ==
    (Called("diagram") /\ call.args[3] # None) =>
        LET bullets == CHOOSE b \in call.args[3] : TRUE
        IN  /\ Len(LastSlide) = 3
            /\ LastSlide[3].top >= Bottom(LastSlide[2])
            /\ Texts(LastSlide[3].paragraphs) = bullets
            /\ \A i \in 1..Len(bullets) :
                   LastSlide[3].paragraphs[i].space_before =
                       ContentBody(bullets).paragraphs[i].space_before

\* C9 as amended: when a non-empty bullets is supplied, the slide has a
\* third region below the diagram box with one paragraph per bullet in
\* order, each with a space of 8 pt before it (the content builder uses
\* 12 pt); when bullets is empty or omitted the slide has no third region.
C9_DiagramBulletsSpaced8pt ==
    Called("diagram") =>
        IF \E b \in call.args[3] : b # <<>>
        THEN LET bullets == CHOOSE b \in call.args[3] : TRUE
             IN  /\ Len(LastSlide) = 3
                 /\ LastSlide[3].top >= Bottom(LastSlide[2])
                 /\ Texts(LastSlide[3].paragraphs) = bullets
                 /\ \A i \in 1..Len(bullets) :
                        /\ LastSlide[3].paragraphs[i].space_before = Some(Pt(8))
                        /\ LastSlide[3].paragraphs[i].space_before
                               # ContentBody(bullets).paragraphs[i].space_before
        ELSE Len(LastSlide) = 2

C9_Witness ==
    /\ Called("diagram")
    /\ \E b \in call.args[3] : Len(b) >= 2 /\ b[1] # b[2]
    /\ Len(LastSlide) = 3

\* C10: a builder call that raises leaves the deck as it was before the
\* call.
C10_RaiseLeavesDeckUnchanged ==
    [][raised' # "none" => deck' = deck]_vars

====
